---- MODULE Spec2Model ----
(***************************************************************************)
(* A model of src/app.py: the timecode chunker (chunk_by_timestamp), the   *)
(* chapter merge of the headline run, the caption run with its validation  *)
(* loop, and the headline (side caption) run.                              *)
(*                                                                         *)
(* Transcript text is a sequence of symbols.  A symbol is a record         *)
(* [k, h, m, s]: k = "tc" is the eight characters HH:MM:SS (h, m, s the    *)
(* three numbers), k = "ch" is one ordinary character and k = "nl" is the  *)
(* line feed.  A "tc" symbol in the middle of a line is ordinary text for  *)
(* the chunker, as the regular expression is anchored at the line start.   *)
(*                                                                         *)
(* Caption text is a sequence of one-character strings; the Japanese       *)
(* characters are written by name: "de" "su" "ma" are the kana of the two  *)
(* suffixes, "maru" is the ideographic full stop, "ten" the ideographic    *)
(* comma, " " the ASCII space and "a" any other character.                 *)
(***************************************************************************)
EXTENDS Integers, Sequences, FiniteSets, TLC

VARIABLES
    transcript,      \* the text area's content (app.py:85)
    pc,              \* position of the script / of the function being walked
    lines,           \* chunk_by_timestamp: text.splitlines(keepends=True)
    ln,              \* chunk_by_timestamp: index of the next line of the for loop
    chunks,          \* chunk_by_timestamp's list; the caption run's chunks
    buf,             \* the buffer of chunk_by_timestamp / of the chapter merge
    start_time,      \* chunk_by_timestamp: start_time (None or seconds)
    chapters,        \* headline run: chapters (before and after the merge)
    merged,          \* chapter merge: merged
    idx,             \* chapter merge: idx of enumerate(chapters, start=1)
    i,               \* index of the chunk / chapter being processed (1-based)
    calls,           \* the chunk indices a generation request was issued for
    resp,            \* how the last generation request ended
    raw,             \* raw output text of the last request
    caps,            \* caption run: caps = json.loads(clean)
    j,               \* caption run: index of the next record of `for cap in caps`
    filtered_caps,   \* caption run: filtered_caps
    last_category,   \* caption run: last_category
    all_captions,    \* caption run: the local all_captions
    side_captions,   \* headline run: the local side_captions
    ss_all_captions, \* st.session_state.all_captions
    ss_side_captions,\* st.session_state.side_captions
    ui               \* what the page shows: error kind, st.code text, outcome banner

vars == <<transcript, pc, lines, ln, chunks, buf, start_time, chapters, merged,
          idx, i, calls, resp, raw, caps, j, filtered_caps, last_category,
          all_captions, side_captions, ss_all_captions, ss_side_captions, ui>>

chunkVars == <<lines, ln, chunks, buf, start_time>>
mergeVars == <<chapters, merged, idx>>
runVars   == <<i, calls, resp, raw, caps, j, filtered_caps, last_category,
               all_captions, side_captions, ss_all_captions, ss_side_captions, ui>>

(***************************************************************************)
(* Bounds of the model.                                                    *)
(***************************************************************************)
MaxLen == 5        \* symbols of a transcript walked by the chunker
MaxChunks == 2     \* chunks (chapters) of a transcript given to a run
MaxCaps == 2       \* records in one generation output
MaxChapters == 17  \* chunks given to the chapter merge

(***************************************************************************)
(* Program constants.                                                      *)
(***************************************************************************)
SPLIT_SECONDS == 20    \* duration.total_seconds() >= 20
MAX_CHAPTERS == 8
SHORT_MAX == 17        \* caption_length <= 17
POINT_MIN == 15        \* 15 <= caption_length
POINT_MAX == 40        \* caption_length < 40
SecondsPerMinute == 60
SecondsPerHour == 3600

None == -1             \* Python's None for start_time; parsed times are >= 0

(***************************************************************************)
(* Sequences.                                                              *)
(***************************************************************************)
RECURSIVE Flatten(_)
Flatten(ss) == IF ss = <<>> THEN <<>> ELSE Head(ss) \o Flatten(Tail(ss))

RECURSIVE SeqsUpTo(_, _)
SeqsUpTo(S, n) ==
    IF n = 0 THEN {<<>>}
    ELSE LET shorter == SeqsUpTo(S, n - 1)
         IN  shorter \cup {Append(q, x) : q \in {p \in shorter : Len(p) = n - 1}, x \in S}

(***************************************************************************)
(* Transcript symbols.                                                     *)
(***************************************************************************)
Tc(hh, mm, sec) == [k |-> "tc", h |-> hh, m |-> mm, s |-> sec]
Ch == [k |-> "ch", h |-> 0, m |-> 0, s |-> 0]
Nl == [k |-> "nl", h |-> 0, m |-> 0, s |-> 0]

\* 00:00:00, 00:00:25, 00:00:45 and 00:01:00: 25 s, exactly 20 s and 15 s apart
Symbols == {Tc(0, 0, 0), Tc(0, 0, 25), Tc(0, 0, 45), Tc(0, 1, 0), Ch, Nl}

\* parse_timecode: timedelta(hours=h, minutes=m, seconds=s), in seconds.
ParseTimecode(sym) == sym.h * SecondsPerHour + sym.m * SecondsPerMinute + sym.s

\* text.splitlines(keepends=True): every line keeps its terminator; the last
\* line may have none; the empty text has no line.
RECURSIVE SplitFrom(_, _, _)
SplitFrom(text, pos, cur) ==
    IF pos > Len(text) THEN (IF cur = <<>> THEN <<>> ELSE <<cur>>)
    ELSE IF text[pos].k = "nl"
         THEN <<Append(cur, text[pos])>> \o SplitFrom(text, pos + 1, <<>>)
         ELSE SplitFrom(text, pos + 1, Append(cur, text[pos]))

SplitLines(text) == SplitFrom(text, 1, <<>>)

\* re.match(r'^(\d{2}:\d{2}:\d{2})', line)
IsTimecodeLine(line) == line # <<>> /\ line[1].k = "tc"

(***************************************************************************)
(* chunk_by_timestamp: the body of the for loop on one line; st is the     *)
(* record of the function's locals chunks, buf and start_time.             *)
(***************************************************************************)
ChunkStepNoNone(st, line) ==
    IF IsTimecodeLine(line)
    THEN LET current_time == ParseTimecode(line[1])
             began == IF st.start_time = None THEN 0 ELSE st.start_time
         IN  IF current_time - began >= SPLIT_SECONDS
             THEN [chunks |-> Append(st.chunks, st.buf), buf |-> line,
                   start_time |-> current_time]
             ELSE [st EXCEPT !.buf = st.buf \o line, !.start_time = began]
    ELSE [st EXCEPT !.buf = st.buf \o line]

ChunkStepDropsBuf(st, line) ==
    IF IsTimecodeLine(line)
    THEN LET current_time == ParseTimecode(line[1])
         IN  IF st.start_time = None
             THEN [st EXCEPT !.start_time = current_time, !.buf = st.buf \o line]
             ELSE IF current_time - st.start_time >= SPLIT_SECONDS
                  THEN [chunks |-> st.chunks, buf |-> line,
                        start_time |-> current_time]
                  ELSE [st EXCEPT !.buf = st.buf \o line]
    ELSE [st EXCEPT !.buf = st.buf \o line]

ChunkStepStrict(st, line) ==
    IF IsTimecodeLine(line)
    THEN LET current_time == ParseTimecode(line[1])
         IN  IF st.start_time = None
             THEN [st EXCEPT !.start_time = current_time, !.buf = st.buf \o line]
             ELSE IF current_time - st.start_time > SPLIT_SECONDS
                  THEN [chunks |-> Append(st.chunks, st.buf), buf |-> line,
                        start_time |-> current_time]
                  ELSE [st EXCEPT !.buf = st.buf \o line]
    ELSE [st EXCEPT !.buf = st.buf \o line]

ChunkStepKeepsStart(st, line) ==
    IF IsTimecodeLine(line)
    THEN LET current_time == ParseTimecode(line[1])
         IN  IF st.start_time = None
             THEN [st EXCEPT !.start_time = current_time, !.buf = st.buf \o line]
             ELSE IF current_time - st.start_time >= SPLIT_SECONDS
                  THEN [chunks |-> Append(st.chunks, st.buf), buf |-> line,
                        start_time |-> st.start_time]
                  ELSE [st EXCEPT !.buf = st.buf \o line]
    ELSE [st EXCEPT !.buf = st.buf \o line]

ChunkStep(st, line) ==
    IF IsTimecodeLine(line)
    THEN LET current_time == ParseTimecode(line[1])
         IN  IF st.start_time = None
             THEN [st EXCEPT !.start_time = current_time, !.buf = st.buf \o line]
             ELSE IF current_time - st.start_time >= SPLIT_SECONDS
                  THEN [chunks |-> Append(st.chunks, st.buf), buf |-> line,
                        start_time |-> current_time]
                  ELSE [st EXCEPT !.buf = st.buf \o line]
    ELSE [st EXCEPT !.buf = st.buf \o line]

\* if buf: chunks.append(buf)
ChunkFlush(st) == IF st.buf # <<>> THEN Append(st.chunks, st.buf) ELSE st.chunks

RECURSIVE ChunkLoop(_, _, _)
ChunkLoop(st, ls, n) ==
    IF n > Len(ls) THEN st ELSE ChunkLoop(ChunkStep(st, ls[n]), ls, n + 1)

ChunkByTimestamp(text) ==
    ChunkFlush(ChunkLoop([chunks |-> <<>>, buf |-> <<>>, start_time |-> None],
                         SplitLines(text), 1))

(***************************************************************************)
(* The chunker walked line by line (specification SpecChunk).              *)
(***************************************************************************)
Texts == SeqsUpTo(Symbols, MaxLen)

NoRaw == [wrap |-> "none", payload |-> [kind |-> "none", items |-> <<>>]]
Array(items) == [kind |-> "array", items |-> items]
Object(cap) == [kind |-> "object", items |-> <<cap>>]
Text == [kind |-> "text", items |-> <<>>]


\* the locals and the page of a script run that has not begun
Idle ==
    /\ i = 0 /\ calls = <<>> /\ resp = "none" /\ raw = NoRaw
    /\ caps = Array(<<>>) /\ j = 0
    /\ filtered_caps = <<>> /\ last_category = ""
    /\ all_captions = <<>> /\ side_captions = <<>>
    /\ ui = [error |-> "none", code |-> NoRaw, outcome |-> "none"]

InitChunk ==
    /\ transcript \in Texts
    /\ pc = "chunking"
    /\ lines = SplitLines(transcript)
    /\ ln = 1
    /\ chunks = <<>> /\ buf = <<>> /\ start_time = None
    /\ chapters = <<>> /\ merged = <<>> /\ idx = 0
    /\ Idle
    /\ ss_all_captions = <<>> /\ ss_side_captions = <<>>

ChunkLocals == [chunks |-> chunks, buf |-> buf, start_time |-> start_time]

ChunkAdvance(line) ==
    LET st == ChunkStep(ChunkLocals, line)
    IN  /\ chunks' = st.chunks
        /\ buf' = st.buf
        /\ start_time' = st.start_time
        /\ ln' = ln + 1
        /\ UNCHANGED <<transcript, pc, lines, mergeVars, runVars>>

\* the first timecode line: start_time is None
ChunkFirstTimecode ==
    /\ pc = "chunking" /\ ln <= Len(lines)
    /\ IsTimecodeLine(lines[ln]) /\ start_time = None
    /\ ChunkAdvance(lines[ln])

\* a timecode line 20 seconds or more after start_time: the buffer is closed
ChunkSplit ==
    /\ pc = "chunking" /\ ln <= Len(lines)
    /\ IsTimecodeLine(lines[ln]) /\ start_time # None
    /\ ParseTimecode(lines[ln][1]) - start_time >= SPLIT_SECONDS
    /\ ChunkAdvance(lines[ln])

\* a timecode line less than 20 seconds after start_time
ChunkKeep ==
    /\ pc = "chunking" /\ ln <= Len(lines)
    /\ IsTimecodeLine(lines[ln]) /\ start_time # None
    /\ ParseTimecode(lines[ln][1]) - start_time < SPLIT_SECONDS
    /\ ChunkAdvance(lines[ln])

\* a line without a timecode prefix
ChunkContinuation ==
    /\ pc = "chunking" /\ ln <= Len(lines)
    /\ ~IsTimecodeLine(lines[ln])
    /\ ChunkAdvance(lines[ln])

\* after the loop: the last buffer, and return
ChunkReturn ==
    /\ pc = "chunking" /\ ln > Len(lines)
    /\ chunks' = ChunkFlush(ChunkLocals)
    /\ pc' = "chunked"
    /\ UNCHANGED <<transcript, lines, ln, buf, start_time, mergeVars, runVars>>

NextChunk ==
    \/ ChunkFirstTimecode
    \/ ChunkSplit
    \/ ChunkKeep
    \/ ChunkContinuation
    \/ ChunkReturn

SpecChunk == InitChunk /\ [][NextChunk]_vars

\* C2: when chunk_by_timestamp returns, the chunks concatenated in order are
\* the transcript, symbol for symbol; and the returned list is what the
\* function computes in one go.
ChunksReproduceTranscript ==
    pc = "chunked" =>
        /\ Flatten(chunks) = transcript
        /\ chunks = ChunkByTimestamp(transcript)

\* a transcript of several lines was split into several chunks
ChunksReproduceWitness ==
    /\ pc = "chunked" /\ Len(chunks) >= 2 /\ Len(lines) >= 3
    /\ \E n \in 1..Len(lines) : ~IsTimecodeLine(lines[n])

\* C3: no element of the list returned for a non-empty transcript is empty.
NoEmptyChunk ==
    (pc = "chunked" /\ transcript # <<>>) =>
        /\ chunks # <<>>
        /\ \A n \in 1..Len(chunks) : chunks[n] # <<>>

\* timecodes out of order, split into several chunks
NoEmptyChunkWitness ==
    /\ pc = "chunked" /\ Len(chunks) >= 2
    /\ \E a, b \in 1..Len(lines) :
          /\ a < b /\ IsTimecodeLine(lines[a]) /\ IsTimecodeLine(lines[b])
          /\ ParseTimecode(lines[b][1]) < ParseTimecode(lines[a][1])

(***************************************************************************)
(* Transcripts given to the runs: n lines "HH:MM:SS x\n", 20 seconds       *)
(* apart, which chunk_by_timestamp splits into n chunks of one line.       *)
(***************************************************************************)
TcOfSeconds(t) ==
    Tc(t \div SecondsPerHour, (t % SecondsPerHour) \div SecondsPerMinute,
       t % SecondsPerMinute)

RECURSIVE RunTranscript(_)
RunTranscript(n) ==
    IF n = 0 THEN <<>>
    ELSE RunTranscript(n - 1) \o <<TcOfSeconds((n - 1) * SPLIT_SECONDS), Ch, Nl>>

\* not transcript.strip(): nothing but white space
IsBlank(text) == \A n \in 1..Len(text) : text[n].k = "nl"

(***************************************************************************)
(* The chapter merge of the headline run (app.py:208-218).  st is the      *)
(* record of the locals merged and buf; ch is the chapter, at its 1-based  *)
(* position, of total chapters, with chunk_size = total // MAX_CHAPTERS.   *)
(***************************************************************************)
MergeBoundary(position, total, chunk_size) ==
    position % chunk_size = 0 \/ position = total

MergeStepNoTail(st, ch, position, total, chunk_size) ==
    LET joined == st.buf \o ch
    IN  IF position % chunk_size = 0
        THEN [merged |-> Append(st.merged, joined), buf |-> <<>>]
        ELSE [merged |-> st.merged, buf |-> joined]

MergeStep(st, ch, position, total, chunk_size) ==
    LET joined == st.buf \o ch
    IN  IF MergeBoundary(position, total, chunk_size)
        THEN [merged |-> Append(st.merged, joined), buf |-> <<>>]
        ELSE [merged |-> st.merged, buf |-> joined]

RECURSIVE MergeLoop(_, _, _)
MergeLoop(st, chs, position) ==
    IF position > Len(chs) THEN st
    ELSE MergeLoop(MergeStep(st, chs[position], position, Len(chs),
                             Len(chs) \div MAX_CHAPTERS),
                   chs, position + 1)

MergeChapters(chs) ==
    IF Len(chs) > MAX_CHAPTERS
    THEN MergeLoop([merged |-> <<>>, buf |-> <<>>], chs, 1).merged
    ELSE chs

(***************************************************************************)
(* The chapter merge walked chapter by chapter (specification SpecMerge).  *)
(***************************************************************************)
InitMerge ==
    /\ \E n \in 0..MaxChapters : transcript = RunTranscript(n)
    /\ pc = "merge"
    /\ lines = <<>> /\ ln = 0 /\ chunks = <<>> /\ buf = <<>> /\ start_time = None
    /\ chapters = ChunkByTimestamp(transcript)
    /\ merged = <<>> /\ idx = 0
    /\ Idle
    /\ ss_all_captions = <<>> /\ ss_side_captions = <<>>

\* len(chapters) <= MAX_CHAPTERS: the chapters are left as they are
MergeSkip ==
    /\ pc = "merge" /\ Len(chapters) <= MAX_CHAPTERS
    /\ pc' = "merge_done"
    /\ UNCHANGED <<transcript, chunkVars, mergeVars, runVars>>

\* len(chapters) > MAX_CHAPTERS: chunk_size, merged = [], buf = ""
MergeBegin ==
    /\ pc = "merge" /\ Len(chapters) > MAX_CHAPTERS
    /\ pc' = "merging"
    /\ merged' = <<>> /\ buf' = <<>> /\ idx' = 1
    /\ UNCHANGED <<transcript, lines, ln, chunks, start_time, chapters, runVars>>

MergeAdvance ==
    LET st == MergeStep([merged |-> merged, buf |-> buf], chapters[idx], idx,
                        Len(chapters), Len(chapters) \div MAX_CHAPTERS)
    IN  /\ merged' = st.merged
        /\ buf' = st.buf
        /\ idx' = idx + 1
        /\ UNCHANGED <<transcript, pc, lines, ln, chunks, start_time, chapters, runVars>>

\* a chapter that does not end a group
MergeJoin ==
    /\ pc = "merging" /\ idx <= Len(chapters)
    /\ ~MergeBoundary(idx, Len(chapters), Len(chapters) \div MAX_CHAPTERS)
    /\ MergeAdvance

\* a chapter that ends a group
MergeClose ==
    /\ pc = "merging" /\ idx <= Len(chapters)
    /\ MergeBoundary(idx, Len(chapters), Len(chapters) \div MAX_CHAPTERS)
    /\ MergeAdvance

\* chapters = merged
MergeEnd ==
    /\ pc = "merging" /\ idx > Len(chapters)
    /\ chapters' = merged
    /\ pc' = "merge_done"
    /\ UNCHANGED <<transcript, chunkVars, merged, idx, runVars>>

NextMerge ==
    \/ MergeSkip
    \/ MergeBegin
    \/ MergeJoin
    \/ MergeClose
    \/ MergeEnd

SpecMerge == InitMerge /\ [][NextMerge]_vars

Min(a, b) == IF a <= b THEN a ELSE b

\* C4: the merge leaves at most MAX_CHAPTERS groups; for n > MAX_CHAPTERS
\* chunks, group g is the concatenation of the chunks from (g-1)*size+1 to
\* g*size (to n for the last group), size being n div MAX_CHAPTERS.
MergeAtMostMaxChapters ==
    pc = "merge_done" =>
        LET orig == ChunkByTimestamp(transcript)
            n == Len(orig)
            size == n \div MAX_CHAPTERS
        IN  /\ Len(chapters) <= MAX_CHAPTERS
            /\ n > MAX_CHAPTERS =>
                  \A g \in 1..Len(chapters) :
                      chapters[g] =
                          Flatten(SubSeq(orig, (g - 1) * size + 1, Min(g * size, n)))

(***************************************************************************)
(* Caption text and the records (dicts) of a generation output.  A record  *)
(* is a function from its keys; a key the dict lacks is not in its DOMAIN. *)
(***************************************************************************)
Pad(n) == [p \in 1..n |-> "a"]
Desu == <<"de", "su">>
Masu == <<"ma", "su">>

\* a caption of `length` characters ending with tail
Caption(length, tail) == Pad(length - Len(tail)) \o tail

\* str.replace(old, new) for one-character old and new
Replace(text, old, new) ==
    [p \in 1..Len(text) |-> IF text[p] = old THEN new ELSE text[p]]

\* caption_text.replace("。", " ").replace("、", " ")
NormalizeKeepsComma(text) == Replace(text, "maru", " ")

Normalize(text) == Replace(Replace(text, "maru", " "), "ten", " ")

\* str.endswith
EndsWith(text, suffix) ==
    /\ Len(text) >= Len(suffix)
    /\ SubSeq(text, Len(text) - Len(suffix) + 1, Len(text)) = suffix

\* str.lower() on the category strings of the model
Lower(category) ==
    CASE category = "Point" -> "point"
      [] category = "NEUTRAL" -> "neutral"
      [] OTHER -> category

\* dict.get(key, default)
Get(cap, key, default) == IF key \in DOMAIN cap THEN cap[key] ELSE default

\* cap[key] = value
Put(cap, key, value) ==
    [f \in DOMAIN cap \cup {key} |-> IF f = key THEN value ELSE cap[f]]

(***************************************************************************)
(* The caption validation loop (app.py:161-183) on one record; st is the   *)
(* record of the locals filtered_caps and last_category.                   *)
(***************************************************************************)
\* the record as the loop leaves it when it accepts it
Normalized(cap) == Put(cap, "caption", Normalize(Get(cap, "caption", <<>>)))

AcceptsPointOfForty(st, cap) ==
    LET caption_text == Get(cap, "caption", <<>>)
        category == Lower(Get(cap, "category", ""))
        caption_length == Len(caption_text)
        normalized == Normalize(caption_text)
    IN  IF category \in {"positive", "negative", "neutral"}
        THEN caption_length <= SHORT_MAX
        ELSE IF category = "point"
             THEN /\ POINT_MIN <= caption_length /\ caption_length <= POINT_MAX
                  /\ (EndsWith(normalized, Desu) \/ EndsWith(normalized, Masu))
                  /\ st.last_category # "point"
             ELSE FALSE

AcceptsConsecutivePoint(st, cap) ==
    LET caption_text == Get(cap, "caption", <<>>)
        category == Lower(Get(cap, "category", ""))
        caption_length == Len(caption_text)
        normalized == Normalize(caption_text)
    IN  IF category \in {"positive", "negative", "neutral"}
        THEN caption_length <= SHORT_MAX
        ELSE IF category = "point"
             THEN /\ POINT_MIN <= caption_length /\ caption_length < POINT_MAX
                  /\ (EndsWith(normalized, Desu) \/ EndsWith(normalized, Masu))
             ELSE FALSE

Accepts(st, cap) ==
    LET caption_text == Get(cap, "caption", <<>>)
        category == Lower(Get(cap, "category", ""))
        caption_length == Len(caption_text)
        normalized == Normalize(caption_text)
    IN  IF category \in {"positive", "negative", "neutral"}
        THEN caption_length <= SHORT_MAX
        ELSE IF category = "point"
             THEN /\ POINT_MIN <= caption_length /\ caption_length < POINT_MAX
                  /\ (EndsWith(normalized, Desu) \/ EndsWith(normalized, Masu))
                  /\ st.last_category # "point"
             ELSE FALSE

ValidateCapMarksRejected(st, cap) ==
    IF Accepts(st, cap)
    THEN [filtered_caps |-> Append(st.filtered_caps, Normalized(cap)),
          last_category |-> Lower(Get(cap, "category", ""))]
    ELSE [st EXCEPT !.last_category = Lower(Get(cap, "category", ""))]

ValidateCapPrepends(st, cap) ==
    IF Accepts(st, cap)
    THEN [filtered_caps |-> <<Normalized(cap)>> \o st.filtered_caps,
          last_category |-> Lower(Get(cap, "category", ""))]
    ELSE st

ValidateCap(st, cap) ==
    IF Accepts(st, cap)
    THEN [filtered_caps |-> Append(st.filtered_caps, Normalized(cap)),
          last_category |-> Lower(Get(cap, "category", ""))]
    ELSE st

(***************************************************************************)
(* Generation outputs.  A raw output is [wrap, payload]: wrap "bare" is    *)
(* the payload text alone, "fenced" is prose around a ``` block holding    *)
(* the payload, "prose" is prose followed by the payload without a fence.  *)
(* A payload is [kind, items]: kind "array" is a JSON array of the objects *)
(* items, "object" the single JSON object items[1], "text" is no JSON.     *)
(***************************************************************************)
\* re.search of the fenced block, strip, and the removal of blank lines:
\* the interior of the fence when there is one, else the whole text
Clean(r) ==
    IF r.wrap = "fenced" THEN r.payload
    ELSE IF r.wrap = "bare" THEN r.payload
    ELSE Text

\* json.loads raises JSONDecodeError on text that is no JSON document
Parses(r) == Clean(r).kind # "text"

\* what `for cap in caps` iterates: the elements of a list, the keys of a dict
Iterations(parsed) ==
    IF parsed.kind = "array" THEN Len(parsed.items)
    ELSE Cardinality(DOMAIN parsed.items[1])

StartA == "00:00:01"
EndA == "00:00:03"
ZeroTimecode == "00:00:00:00"
StartB == "00:00:05:00"

Rec(category, caption) ==
    [start |-> StartA, end |-> EndA, caption |-> caption, category |-> category]

\* the records of the outputs given to a whole run: two that are accepted
\* (a short caption of 17 characters, a point caption of 15), two that are not
RunCandidates ==
    { Rec("positive", <<"a", "maru">> \o Pad(14) \o <<"ten">>),
      Rec("neutral", Pad(18)),
      Rec("Point", <<"ten">> \o Caption(14, Desu)),
      Rec("point", Caption(20, <<"su", "maru">>)) }

\* the records given to the validation loop alone
Candidates ==
    RunCandidates \cup
    { Rec("negative", Pad(17)),
      Rec("info", Pad(10)),
      [start |-> StartA, end |-> EndA, category |-> "NEUTRAL"],
      [start |-> StartA, end |-> EndA, caption |-> Caption(15, Masu)],
      Rec("point", Caption(14, Desu)),
      Rec("point", Caption(39, <<"maru">> \o Masu)),
      Rec("point", Caption(40, Masu)),
      Rec("point", Pad(20)) }

Raw(wrap, payload) == [wrap |-> wrap, payload |-> payload]

\* outputs json.loads rejects: plain prose, prose in a fence, and prose
\* followed by an array without a fence
Unparseable(payload) ==
    {Raw("bare", Text), Raw("fenced", Text), Raw("prose", payload)}

CaptionRaws ==
    {Raw(w, p) :
        w \in {"bare", "fenced"},
        p \in {Array(cs) : cs \in SeqsUpTo(RunCandidates, MaxCaps)}
              \cup {Object(Rec("positive", Pad(3))), Object(<<>>)}}
    \cup Unparseable(Array(<<Rec("positive", Pad(3))>>))

(***************************************************************************)
(* The page (specification Spec): one script run on a button press.        *)
(* session_state holds what an earlier completed run of the session left.  *)
(***************************************************************************)
Sessions ==
    { [all_captions |-> <<>>, side_captions |-> <<>>],
      [all_captions |-> <<Normalized(Rec("positive", Pad(5)))>>,
       side_captions |-> <<[start |-> ZeroTimecode, caption |-> Pad(4)]>>] }

Init ==
    /\ \E n \in 0..MaxChunks : transcript = RunTranscript(n)
    /\ pc = "idle"
    /\ lines = <<>> /\ ln = 0 /\ chunks = <<>> /\ buf = <<>> /\ start_time = None
    /\ chapters = <<>> /\ merged = <<>> /\ idx = 0
    /\ Idle
    /\ \E session \in Sessions :
          /\ ss_all_captions = session.all_captions
          /\ ss_side_captions = session.side_captions

\* "生成開始" pressed with a blank transcript: st.error, st.stop
CaptionBlank ==
    /\ pc = "idle" /\ IsBlank(transcript)
    /\ ui' = [ui EXCEPT !.error = "blank"]
    /\ pc' = "caption_blank"
    /\ UNCHANGED <<transcript, chunkVars, mergeVars, i, calls, resp, raw, caps, j,
                   filtered_caps, last_category, all_captions, side_captions,
                   ss_all_captions, ss_side_captions>>

\* "生成開始" pressed: chunks = chunk_by_timestamp(transcript); all_captions = []
CaptionStart ==
    /\ pc = "idle" /\ ~IsBlank(transcript)
    /\ chunks' = ChunkByTimestamp(transcript)
    /\ all_captions' = <<>>
    /\ i' = 1
    /\ pc' = "caption_loop"
    /\ UNCHANGED <<transcript, lines, ln, buf, start_time, mergeVars, calls, resp,
                   raw, caps, j, filtered_caps, last_category, side_captions,
                   ss_all_captions, ss_side_captions, ui>>

\* client.chat.completions.create raises: nothing catches it, the script run
\* ends with the exception shown
CaptionRequestRaises ==
    /\ pc = "caption_loop" /\ i <= Len(chunks)
    /\ calls' = Append(calls, i)
    /\ resp' = "raised"
    /\ ui' = [ui EXCEPT !.error = "exception"]
    /\ pc' = "caption_crashed"
    /\ UNCHANGED <<transcript, chunkVars, mergeVars, i, raw, caps, j, filtered_caps,
                   last_category, all_captions, side_captions, ss_all_captions,
                   ss_side_captions>>

\* the request returns r and json.loads raises JSONDecodeError:
\* st.error, st.code(raw), st.stop
CaptionParseFails(r) ==
    /\ pc = "caption_loop" /\ i <= Len(chunks)
    /\ ~Parses(r)
    /\ calls' = Append(calls, i)
    /\ resp' = "returned"
    /\ raw' = r
    /\ ui' = [ui EXCEPT !.error = "parse", !.code = r]
    /\ pc' = "caption_halted"
    /\ UNCHANGED <<transcript, chunkVars, mergeVars, i, caps, j, filtered_caps,
                   last_category, all_captions, side_captions, ss_all_captions,
                   ss_side_captions>>

\* the request returns r and json.loads returns caps;
\* filtered_caps = []; last_category = ""
CaptionParsed(r) ==
    /\ pc = "caption_loop" /\ i <= Len(chunks)
    /\ Parses(r)
    /\ calls' = Append(calls, i)
    /\ resp' = "returned"
    /\ raw' = r
    /\ caps' = Clean(r)
    /\ j' = 1
    /\ filtered_caps' = <<>>
    /\ last_category' = ""
    /\ pc' = "caption_validate"
    /\ UNCHANGED <<transcript, chunkVars, mergeVars, i, all_captions, side_captions,
                   ss_all_captions, ss_side_captions, ui>>

ValidateLocals == [filtered_caps |-> filtered_caps, last_category |-> last_category]

\* one pass of `for cap in caps` over a dict of a JSON array; an accepted
\* dict is changed in place, so the element of caps changes with it
ValidateAdvance ==
    LET st == ValidateCap(ValidateLocals, caps.items[j])
    IN  /\ filtered_caps' = st.filtered_caps
        /\ last_category' = st.last_category
        /\ caps' = IF Accepts(ValidateLocals, caps.items[j])
                   THEN [caps EXCEPT !.items[j] = Normalized(caps.items[j])]
                   ELSE caps
        /\ j' = j + 1
        /\ UNCHANGED <<transcript, pc, chunkVars, mergeVars, i, calls, resp, raw,
                       all_captions, side_captions, ss_all_captions,
                       ss_side_captions, ui>>

CaptionAccept ==
    /\ pc = "caption_validate" /\ caps.kind = "array" /\ j <= Len(caps.items)
    /\ Accepts(ValidateLocals, caps.items[j])
    /\ ValidateAdvance

CaptionReject ==
    /\ pc = "caption_validate" /\ caps.kind = "array" /\ j <= Len(caps.items)
    /\ ~Accepts(ValidateLocals, caps.items[j])
    /\ ValidateAdvance

\* caps is a dict: cap is one of its keys, a str, and cap.get raises
\* AttributeError, which nothing catches
CaptionRecordRaises ==
    /\ pc = "caption_validate" /\ caps.kind = "object" /\ j <= Iterations(caps)
    /\ ui' = [ui EXCEPT !.error = "exception"]
    /\ pc' = "caption_crashed"
    /\ UNCHANGED <<transcript, chunkVars, mergeVars, i, calls, resp, raw, caps, j,
                   filtered_caps, last_category, all_captions, side_captions,
                   ss_all_captions, ss_side_captions>>

CaptionExtendSaves ==
    /\ pc = "caption_validate" /\ j > Iterations(caps)
    /\ all_captions' = all_captions \o filtered_caps
    /\ ss_all_captions' = all_captions'
    /\ i' = i + 1
    /\ pc' = "caption_loop"
    /\ UNCHANGED <<transcript, chunkVars, mergeVars, calls, resp, raw, caps, j,
                   filtered_caps, last_category, side_captions,
                   ss_side_captions, ui>>

\* all_captions.extend(filtered_caps), and on to the next chunk
CaptionExtend ==
    /\ pc = "caption_validate" /\ j > Iterations(caps)
    /\ all_captions' = all_captions \o filtered_caps
    /\ i' = i + 1
    /\ pc' = "caption_loop"
    /\ UNCHANGED <<transcript, chunkVars, mergeVars, calls, resp, raw, caps, j,
                   filtered_caps, last_category, side_captions, ss_all_captions,
                   ss_side_captions, ui>>

\* st.warning when nothing was accepted, else st.success
OutcomeAlwaysSuccess(captions) == "success"

Outcome(captions) == IF captions = <<>> THEN "warning" ELSE "success"

\* after the last chunk: st.session_state.all_captions = all_captions
CaptionFinish ==
    /\ pc = "caption_loop" /\ i > Len(chunks)
    /\ ss_all_captions' = all_captions
    /\ ui' = [ui EXCEPT !.outcome = Outcome(all_captions)]
    /\ pc' = "caption_done"
    /\ UNCHANGED <<transcript, chunkVars, mergeVars, i, calls, resp, raw, caps, j,
                   filtered_caps, last_category, all_captions, side_captions,
                   ss_side_captions>>

(***************************************************************************)
(* The headline (side caption) run (app.py:200-285).  The model counts the *)
(* chapters from 1, the code's enumerate from 0.                           *)
(***************************************************************************)
SideCandidates ==
    { [start |-> StartB, caption |-> <<"a", "maru", "a", "ten", "a">>],
      [caption |-> <<"a", "a", "ten">>],
      [start |-> StartB] }

SideRaws ==
    {Raw(w, p) :
        w \in {"bare", "fenced"},
        p \in {Object(c) : c \in SideCandidates}
              \cup {Array(<<Rec("positive", Pad(3))>>)}}
    \cup Unparseable(Object([caption |-> Pad(3)]))

\* cap["start"] = ... on a list raises TypeError, cap["caption"] on a dict
\* without the key raises KeyError
SideRecordFails(parsed) ==
    parsed.kind = "array" \/ "caption" \notin DOMAIN parsed.items[1]

SideRecordResetsStart(cap) ==
    Put(Put(cap, "start", ZeroTimecode), "caption", Normalize(cap["caption"]))

\* if "start" not in cap: cap["start"] = "00:00:00:00"; the caption normalized
SideRecord(cap) ==
    LET started == IF "start" \in DOMAIN cap THEN cap ELSE Put(cap, "start", ZeroTimecode)
    IN  Put(started, "caption", Normalize(started["caption"]))

\* "サイドテロップコピーを生成" pressed with a blank transcript
SideBlank ==
    /\ pc = "idle" /\ IsBlank(transcript)
    /\ ui' = [ui EXCEPT !.error = "blank"]
    /\ pc' = "side_blank"
    /\ UNCHANGED <<transcript, chunkVars, mergeVars, i, calls, resp, raw, caps, j,
                   filtered_caps, last_category, all_captions, side_captions,
                   ss_all_captions, ss_side_captions>>

\* the button pressed: the chapters, merged when more than MAX_CHAPTERS
SideStart ==
    /\ pc = "idle" /\ ~IsBlank(transcript)
    /\ chapters' = MergeChapters(ChunkByTimestamp(transcript))
    /\ side_captions' = <<>>
    /\ i' = 1
    /\ pc' = "side_loop"
    /\ UNCHANGED <<transcript, chunkVars, merged, idx, calls, resp, raw, caps, j,
                   filtered_caps, last_category, all_captions, ss_all_captions,
                   ss_side_captions, ui>>

\* the request raises: except Exception shows st.error, the loop goes on
SideRequestRaises ==
    /\ pc = "side_loop" /\ i <= Len(chapters)
    /\ calls' = Append(calls, i)
    /\ resp' = "raised"
    /\ ui' = [ui EXCEPT !.error = "side_error"]
    /\ i' = i + 1
    /\ UNCHANGED <<transcript, pc, chunkVars, mergeVars, raw, caps, j, filtered_caps,
                   last_category, all_captions, side_captions, ss_all_captions,
                   ss_side_captions>>

\* json.loads raises JSONDecodeError: st.error, st.code(raw), st.stop; the
\* stop is no Exception and passes the outer except
SideParseFails(r) ==
    /\ pc = "side_loop" /\ i <= Len(chapters)
    /\ ~Parses(r)
    /\ calls' = Append(calls, i)
    /\ resp' = "returned"
    /\ raw' = r
    /\ ui' = [ui EXCEPT !.error = "parse", !.code = r]
    /\ pc' = "side_halted"
    /\ UNCHANGED <<transcript, chunkVars, mergeVars, i, caps, j, filtered_caps,
                   last_category, all_captions, side_captions, ss_all_captions,
                   ss_side_captions>>

\* the output parses but is no dict with a caption: TypeError or KeyError,
\* caught by except Exception; the loop goes on
SideRecordRaises(r) ==
    /\ pc = "side_loop" /\ i <= Len(chapters)
    /\ Parses(r) /\ SideRecordFails(Clean(r))
    /\ calls' = Append(calls, i)
    /\ resp' = "returned"
    /\ raw' = r
    /\ ui' = [ui EXCEPT !.error = "side_error"]
    /\ i' = i + 1
    /\ UNCHANGED <<transcript, pc, chunkVars, mergeVars, caps, j, filtered_caps,
                   last_category, all_captions, side_captions, ss_all_captions,
                   ss_side_captions>>

\* side_captions.append(cap)
SideAppend(r) ==
    /\ pc = "side_loop" /\ i <= Len(chapters)
    /\ Parses(r) /\ ~SideRecordFails(Clean(r))
    /\ calls' = Append(calls, i)
    /\ resp' = "returned"
    /\ raw' = r
    /\ side_captions' = Append(side_captions, SideRecord(Clean(r).items[1]))
    /\ i' = i + 1
    /\ UNCHANGED <<transcript, pc, chunkVars, mergeVars, caps, j, filtered_caps,
                   last_category, all_captions, ss_all_captions, ss_side_captions, ui>>

\* after the last chapter: st.session_state.side_captions = side_captions
SideFinish ==
    /\ pc = "side_loop" /\ i > Len(chapters)
    /\ ss_side_captions' = side_captions
    /\ ui' = [ui EXCEPT !.outcome = Outcome(side_captions)]
    /\ pc' = "side_done"
    /\ UNCHANGED <<transcript, chunkVars, mergeVars, i, calls, resp, raw, caps, j,
                   filtered_caps, last_category, all_captions, side_captions,
                   ss_all_captions>>

Next ==
    \/ CaptionBlank
    \/ CaptionStart
    \/ CaptionRequestRaises
    \/ \E r \in CaptionRaws : CaptionParseFails(r)
    \/ \E r \in CaptionRaws : CaptionParsed(r)
    \/ CaptionAccept
    \/ CaptionReject
    \/ CaptionRecordRaises
    \/ CaptionExtend
    \/ CaptionFinish
    \/ SideBlank
    \/ SideStart
    \/ SideRequestRaises
    \/ \E r \in SideRaws : SideParseFails(r)
    \/ \E r \in SideRaws : SideRecordRaises(r)
    \/ \E r \in SideRaws : SideAppend(r)
    \/ SideFinish

Spec == Init /\ [][Next]_vars

(***************************************************************************)
(* The validation loop alone (specification SpecValidate): the caption run *)
(* of a one-chunk transcript, from the point where json.loads has returned *)
(* a list of records, to all_captions.extend.                              *)
(***************************************************************************)
InitValidate ==
    /\ transcript = RunTranscript(1)
    /\ pc = "caption_validate"
    /\ lines = <<>> /\ ln = 0 /\ buf = <<>> /\ start_time = None
    /\ chunks = ChunkByTimestamp(transcript)
    /\ chapters = <<>> /\ merged = <<>> /\ idx = 0
    /\ i = 1 /\ calls = <<1>> /\ resp = "returned"
    /\ \E cs \in SeqsUpTo(Candidates, MaxCaps) :
          /\ raw = [wrap |-> "bare", payload |-> Array(cs)]
          /\ caps = Array(cs)
    /\ j = 1
    /\ filtered_caps = <<>> /\ last_category = ""
    /\ all_captions = <<>> /\ side_captions = <<>>
    /\ ss_all_captions = <<>> /\ ss_side_captions = <<>>
    /\ ui = [error |-> "none", code |-> NoRaw, outcome |-> "none"]

NextValidate ==
    \/ CaptionAccept
    \/ CaptionReject
    \/ CaptionExtend

SpecValidate == InitValidate /\ [][NextValidate]_vars

(***************************************************************************)
(* Properties.                                                             *)
(***************************************************************************)
IsPoint(rec) == Lower(rec.category) = "point"

IsPrefix(p, q) == Len(p) <= Len(q) /\ SubSeq(q, 1, Len(p)) = p

\* C1: no two consecutive records of the accumulated all_captions are both
\* of category point, the last record of one chunk and the first of the
\* next included.
NoConsecutivePoint ==
    \A n \in 1..(Len(all_captions) - 1) :
        ~(IsPoint(all_captions[n]) /\ IsPoint(all_captions[n + 1]))

\* C5: when the output of chunk i does not parse, the requests issued are
\* those of the chunks 1..i and no other, and the captions accumulated from
\* the chunks before i are in the result the session keeps.
ParseHaltKeepsAccepted ==
    pc = "caption_halted" =>
        /\ calls = [n \in 1..i |-> n]
        /\ IsPrefix(all_captions, ss_all_captions)

\* C6: a generation request that raises is shown as an error and the run
\* goes on with the next chunk, in the caption run and in the headline run.
TransportFailureContinues ==
    [][(calls' # calls /\ resp' = "raised") =>
          /\ pc' \in {"caption_loop", "side_loop"}
          /\ i' = i + 1
          /\ ui'.error # "none"]_vars

\* C7: every accepted record keeps its category's rule on the stored caption:
\* positive, negative, neutral: at most 17 characters; point: at least 15 and
\* fewer than 40 characters, ending with "desu" or "masu".
StoredRuleHolds(rec) ==
    LET category == Lower(rec.category)
        length == Len(rec.caption)
    IN  \/ /\ category \in {"positive", "negative", "neutral"}
           /\ length <= SHORT_MAX
        \/ /\ category = "point"
           /\ POINT_MIN <= length /\ length < POINT_MAX
           /\ rec.caption[length] = "su"
           /\ rec.caption[length - 1] \in {"de", "ma"}

AcceptedSatisfyRules ==
    /\ \A n \in 1..Len(filtered_caps) :
          /\ {"caption", "category"} \subseteq DOMAIN filtered_caps[n]
          /\ StoredRuleHolds(filtered_caps[n])
    /\ \A n \in 1..Len(all_captions) :
          /\ {"caption", "category"} \subseteq DOMAIN all_captions[n]
          /\ StoredRuleHolds(all_captions[n])

\* a short caption of 17 characters and a point caption of 39 were accepted
AcceptedRulesWitness ==
    /\ pc = "caption_loop" /\ Len(all_captions) = 2
    /\ ~IsPoint(all_captions[1]) /\ Len(all_captions[1].caption) = SHORT_MAX
    /\ IsPoint(all_captions[2]) /\ Len(all_captions[2].caption) = POINT_MAX - 1

\* C8: no stored caption holds the ideographic full stop or comma, and the
\* caption stored by an acceptance is the candidate's caption with each of
\* them replaced by one space, of the same length.
Ideographic == {"maru", "ten"}

NoIdeographic(captions) ==
    \A n \in 1..Len(captions) :
        \A p \in 1..Len(captions[n].caption) : captions[n].caption[p] \notin Ideographic

SpacedFrom(orig, stored) ==
    /\ Len(stored) = Len(orig)
    /\ \A p \in 1..Len(orig) :
          stored[p] = IF orig[p] \in Ideographic THEN " " ELSE orig[p]

StoredCaptionsNormalized ==
    /\ [](/\ NoIdeographic(filtered_caps) /\ NoIdeographic(all_captions)
          /\ NoIdeographic(side_captions)
          /\ NoIdeographic(ss_all_captions) /\ NoIdeographic(ss_side_captions))
    /\ [][/\ Len(filtered_caps') = Len(filtered_caps) + 1 =>
               SpacedFrom(Get(caps.items[j], "caption", <<>>),
                          filtered_caps'[Len(filtered_caps')].caption)
          /\ Len(side_captions') = Len(side_captions) + 1 =>
               SpacedFrom(raw'.payload.items[1].caption,
                          side_captions'[Len(side_captions')].caption)]_vars

\* a completed caption run stored a caption in which a space took the place
\* of a full stop
StoredNormalizedWitness ==
    /\ pc = "caption_done"
    /\ \E n \in 1..Len(ss_all_captions) :
          /\ Len(ss_all_captions[n].caption) = SHORT_MAX
          /\ ss_all_captions[n].caption[2] = " "

\* C9: the warning is shown exactly when a run has processed every chunk and
\* accepted nothing, the success banner exactly when it has processed every
\* chunk and accepted something, and a stopped or crashed run shows neither.
Completed == pc \in {"caption_done", "side_done"}
Accumulated == IF pc = "caption_done" THEN all_captions ELSE side_captions
Processed == IF pc = "caption_done" THEN Len(chunks) ELSE Len(chapters)

OutcomeDistinguished ==
    /\ Completed => i = Processed + 1
    /\ ui.outcome = "warning" <=> (Completed /\ Accumulated = <<>>)
    /\ ui.outcome = "success" <=> (Completed /\ Accumulated # <<>>)
    /\ pc \in {"caption_halted", "side_halted", "caption_crashed", "caption_blank",
               "side_blank"} => ui.outcome = "none"

\* a caption run whose two outputs parsed and held records, none accepted
OutcomeWarningWitness ==
    /\ pc = "caption_done" /\ calls = <<1, 2>>
    /\ all_captions = <<>> /\ caps.items # <<>>
    /\ ui.outcome = "warning"

\* C10: a run stopped by an error that a returned output caused shows that
\* output verbatim (st.code) with the parse error.
HaltShowsRawOutput ==
    (pc \in {"caption_halted", "side_halted", "caption_crashed"} /\ resp = "returned") =>
        /\ ui.code = raw
        /\ ui.error = "parse"

(***************************************************************************)
(* Properties of the chunker's boundaries.                                 *)
(***************************************************************************)
\* the times of the timecode lines of a piece of text, in order
TimecodeTimes(text) ==
    LET found == SelectSeq(SplitLines(text), IsTimecodeLine)
    IN  [n \in 1..Len(found) |-> ParseTimecode(found[n][1])]

\* C11: in every returned chunk each timecode line is less than 20 seconds
\* after the chunk's first timecode line, and the timecode line that is 20
\* seconds or more after it is not in the chunk but opens the next one.
ChunkSpanBelowThreshold ==
    pc = "chunked" =>
        /\ \A c \in 1..Len(chunks) :
              LET times == TimecodeTimes(chunks[c])
              IN  \A n \in 1..Len(times) : times[n] - times[1] < SPLIT_SECONDS
        /\ \A c \in 2..Len(chunks) :
              /\ IsTimecodeLine(chunks[c])
              /\ TimecodeTimes(chunks[c - 1]) # <<>>
              /\ ParseTimecode(chunks[c][1]) - TimecodeTimes(chunks[c - 1])[1]
                     >= SPLIT_SECONDS

\* a chunk that holds a later timecode line, and a split
ChunkSpanWitness ==
    /\ pc = "chunked" /\ Len(chunks) >= 2
    /\ \E c \in 1..Len(chunks) :
          LET times == TimecodeTimes(chunks[c])
          IN  Len(times) >= 2 /\ times[2] > times[1]

Chars(n) == [p \in 1..n |-> Ch]

\* "00:00:00 Hello\n" and "00:00:25 World\n"
ScenarioHello == <<Tc(0, 0, 0)>> \o Chars(6) \o <<Nl>>
ScenarioWorld == <<Tc(0, 0, 25)>> \o Chars(6) \o <<Nl>>

\* C12: the loop closes the buffer before a line exactly when the line is a
\* timecode line 20 seconds or more after start_time, which is the first
\* timecode of the current buffer; a continuation line changes neither the
\* chunks nor start_time; every chunk after the first begins with a timecode
\* line; the two-line scenario gives its two lines as chunks.
ChunkBoundaryRule ==
    /\ [](ChunkByTimestamp(ScenarioHello \o ScenarioWorld)
              = <<ScenarioHello, ScenarioWorld>>)
    /\ [](pc = "chunking" =>
              IF start_time = None
              THEN TimecodeTimes(buf) = <<>> /\ chunks = <<>>
              ELSE TimecodeTimes(buf) # <<>> /\ start_time = TimecodeTimes(buf)[1])
    /\ [](pc = "chunked" => \A c \in 2..Len(chunks) : IsTimecodeLine(chunks[c]))
    /\ [][ln' = ln + 1 =>
             LET line == lines[ln]
                 due == /\ IsTimecodeLine(line) /\ start_time # None
                        /\ ParseTimecode(line[1]) - start_time >= SPLIT_SECONDS
             IN  /\ (chunks' # chunks) <=> due
                 /\ due => (chunks' = Append(chunks, buf) /\ buf' = line)
                 /\ ~due => buf' = buf \o line
                 /\ ~IsTimecodeLine(line) => start_time' = start_time]_vars

\* a transcript that opens with a continuation line and is split once
ChunkBoundaryWitness ==
    /\ pc = "chunked" /\ Len(chunks) = 2
    /\ Len(lines) >= 3 /\ ~IsTimecodeLine(lines[1])

(***************************************************************************)
(* Properties of the validation loop.                                      *)
(***************************************************************************)
ShortCategories == {"positive", "negative", "neutral"}

\* the grounds on which a record is rejected, given the alternation state
Unrecognized(cap) ==
    \/ "category" \notin DOMAIN cap
    \/ Lower(cap.category) \notin ShortCategories \cup {"point"}

CaptionLength(cap) == IF "caption" \in DOMAIN cap THEN Len(cap.caption) ELSE 0

ShortTooLong(cap) ==
    /\ ~Unrecognized(cap) /\ Lower(cap.category) \in ShortCategories
    /\ CaptionLength(cap) > SHORT_MAX

PointFails(cap, state) ==
    /\ ~Unrecognized(cap) /\ Lower(cap.category) = "point"
    /\ \/ CaptionLength(cap) < POINT_MIN
       \/ CaptionLength(cap) >= POINT_MAX
       \/ cap.caption[Len(cap.caption)] \notin {"su"}
       \/ cap.caption[Len(cap.caption) - 1] \notin {"de", "ma"}
       \/ state = "point"

\* C13: a pass of the loop over a record that is rejected (category missing
\* or unrecognized, short caption over 17 characters, point caption failing
\* length, suffix or alternation) leaves last_category and filtered_caps as
\* they were; a pass that changes either is an acceptance, which appends the
\* record and sets last_category to its category.
RejectLeavesState ==
    [][(pc = "caption_validate" /\ j' = j + 1) =>
          LET cap == caps.items[j]
              rejected == \/ Unrecognized(cap) \/ ShortTooLong(cap)
                          \/ PointFails(cap, last_category)
          IN  /\ rejected =>
                    (filtered_caps' = filtered_caps /\ last_category' = last_category)
              /\ ~rejected =>
                    /\ Len(filtered_caps') = Len(filtered_caps) + 1
                    /\ last_category' = Lower(cap.category)
                    /\ filtered_caps'[Len(filtered_caps')].category = cap.category]_vars

\* a short caption was accepted and the over-long short caption after it
\* was dropped: the state is still the first record's category
RejectLeavesWitness ==
    /\ pc = "caption_validate" /\ j = 3
    /\ Len(filtered_caps) = 1 /\ last_category \in ShortCategories
    /\ ShortTooLong(caps.items[2])

\* C19: no two consecutive records of a chunk's filtered_caps are both point.
NoConsecutivePointInChunk ==
    \A n \in 1..(Len(filtered_caps) - 1) :
        ~(IsPoint(filtered_caps[n]) /\ IsPoint(filtered_caps[n + 1]))

\* a point record was accepted and the well-formed point record right after
\* it was dropped
NoConsecutivePointWitness ==
    /\ pc = "caption_validate" /\ j = 3
    /\ Len(filtered_caps) = 1 /\ IsPoint(filtered_caps[1])
    /\ ~Unrecognized(caps.items[2]) /\ IsPoint(caps.items[2])
    /\ ~PointFails(caps.items[2], "")

(***************************************************************************)
(* Properties of the runs.                                                 *)
(***************************************************************************)
RECURSIVE IsSubsequence(_, _)
IsSubsequence(p, q) ==
    IF p = <<>> THEN TRUE
    ELSE IF q = <<>> THEN FALSE
    ELSE IF Head(p) = Head(q) THEN IsSubsequence(Tail(p), Tail(q))
    ELSE IsSubsequence(p, Tail(q))

CaptionRunning ==
    pc \in {"caption_loop", "caption_validate", "caption_done", "caption_halted",
            "caption_crashed"}

\* C14: the caption run requests the chunks 1, 2, ... in order, one request
\* each, and ends either completed, after the last chunk, or halted at the
\* first chunk whose output does not parse.
CaptionRunEndsTwoWays ==
    CaptionRunning =>
        /\ calls = [n \in 1..Len(calls) |-> n]
        /\ Len(calls) \in {i - 1, i}
        /\ pc \in {"caption_loop", "caption_validate", "caption_done", "caption_halted"}
        /\ pc = "caption_done" => Len(calls) = Len(chunks)
        /\ pc = "caption_halted" => (Len(calls) = i /\ ~Parses(raw))

AcceptedAppendOnly ==
    /\ [](pc = "caption_validate" /\ caps.kind = "array" =>
              /\ IsSubsequence(filtered_caps, SubSeq(caps.items, 1, j - 1))
              /\ IsSubsequence(filtered_caps, caps.items))
    /\ [][/\ IsPrefix(all_captions, all_captions')
          /\ all_captions' # all_captions =>
                (pc = "caption_validate" /\ pc' = "caption_loop"
                 /\ all_captions' = all_captions \o filtered_caps)
          /\ (pc = "caption_validate" /\ pc' = "caption_loop") =>
                all_captions' = all_captions \o filtered_caps
          /\ pc = "caption_validate" => IsPrefix(filtered_caps, filtered_caps')]_vars

\* a completed run of two chunks that accepted two records from the first
\* chunk and one of the two records of the second
AcceptedAppendWitness ==
    /\ pc = "caption_done" /\ Len(all_captions) = 3
    /\ Len(caps.items) = 2 /\ Len(filtered_caps) = 1
    /\ ~IsPoint(all_captions[1]) /\ IsPoint(all_captions[2])

\* C17: st.session_state.all_captions changes only in the step that ends a
\* caption run after its last chunk, and takes the run's all_captions; a run
\* that halts, crashes or is refused leaves it as it was.
SessionWrittenOnCompletion ==
    /\ [][ss_all_captions' # ss_all_captions =>
             /\ pc = "caption_loop" /\ i > Len(chunks) /\ pc' = "caption_done"
             /\ ss_all_captions' = all_captions]_vars
    /\ [][pc' \in {"caption_halted", "caption_crashed", "caption_blank"} =>
             ss_all_captions' = ss_all_captions]_vars
    /\ [](pc = "caption_done" =>
             (ss_all_captions = all_captions /\ Len(calls) = Len(chunks)))
    /\ [](pc \in {"caption_loop", "caption_validate", "caption_halted",
                  "caption_crashed", "caption_blank"} =>
             \E session \in Sessions : ss_all_captions = session.all_captions)

\* a run that had accepted a record halted on its second chunk and the
\* session still holds the captions of the earlier run
SessionKeptWitness ==
    /\ pc = "caption_halted" /\ i = 2 /\ all_captions # <<>>
    /\ ss_all_captions # <<>> /\ ss_all_captions # all_captions

\* C18: the merged chapters concatenated are the chunks concatenated, no
\* merged chapter is empty, and at most MAX_CHAPTERS chunks are returned as
\* they are.
MergeLossless ==
    pc = "merge_done" =>
        LET orig == ChunkByTimestamp(transcript)
        IN  /\ Flatten(chapters) = Flatten(orig)
            /\ Flatten(chapters) = transcript
            /\ \A g \in 1..Len(chapters) : chapters[g] # <<>>
            /\ Len(orig) <= MAX_CHAPTERS => chapters = orig

\* chunks merged two by two with one chunk left over
MergeLosslessWitness ==
    /\ pc = "merge_done"
    /\ Len(ChunkByTimestamp(transcript)) = 2 * MAX_CHAPTERS + 1
    /\ Len(chapters) = MAX_CHAPTERS + 1
====
